---------------------------- MODULE Spec2Model ----------------------------
(***************************************************************************)
(* The three scripts of the repository:                                    *)
(*   hello.py, hello_second.py  an interactive loop that reads a line,     *)
(*                              classifies it (exit / help / greeting /    *)
(*                              anything else) and prints a canned answer; *)
(*   app.py                     a Flask application with the routes / and  *)
(*                              /job.                                      *)
(*                                                                         *)
(* Three specifications share the variables:                               *)
(*   Spec     the main loop of a CLI script (main, get_user_input);        *)
(*   SpecFn   the functions of a CLI script called on one argument;        *)
(*   SpecJob  the requests served by app.py.                               *)
(*                                                                         *)
(* A Python str is a tuple of characters.  A character is a one-character  *)
(* TLA+ string; a character outside ASCII is written by its code point,    *)
(* "U+0131".  Inside the string literals copied from the sources (the      *)
(* responses, the printed lines) a character outside ASCII is written      *)
(* {U+XXXX}; those strings are only printed and compared, never scanned.   *)
(***************************************************************************)
EXTENDS Integers, Sequences, FiniteSets, TLC

---------------------------------------------------------------------------
(* Bounds of the model. *)

\* whitespace characters put before and after a phrase
MaxPad == 1
\* length of the strings enumerated over ShortAlphabet
MaxLen == 2
\* the count of lines read saturates here (the loop itself is unbounded)
MaxLines == 2
\* requests app.py serves at the same time
MaxReqs == 2
\* the count of requests answered saturates here
MaxServed == 2

---------------------------------------------------------------------------
(* Python values *)

\* None: a tuple that is no str of the model, its element being no character
None == << "None" >>

UpperLetters == "ABCDEFGHIJKLMNOPQRSTUVWXYZ"
LowerLetters == "abcdefghijklmnopqrstuvwxyz"

\* the characters of a TLA+ string literal, as a tuple
RECURSIVE CharsFrom(_, _)
CharsFrom(lit, i) ==
  IF i > Len(lit) THEN << >> ELSE << SubSeq(lit, i, i) >> \o CharsFrom(lit, i + 1)

Chars(lit) == CharsFrom(lit, 1)

\* position of character c in the literal lit, 0 when absent
IndexIn(lit, c) ==
  IF \E i \in 1..Len(lit) : SubSeq(lit, i, i) = c
  THEN CHOOSE i \in 1..Len(lit) : SubSeq(lit, i, i) = c
  ELSE 0

\* str.isspace() of one character: the characters str.strip() removes.
\* Of Python's 29 whitespace characters the model has these five.
Whitespace == {" ", "\t", "\n", "\r", "U+00A0"}

\* str.lower() of one character.  U+212A KELVIN SIGN lowers to k and is the
\* only character outside ASCII that lowers to an ASCII letter; U+0130 lowers
\* to i followed by U+0307; U+0131 and U+017F are lowercase already.
LowerChar(c) ==
  IF IndexIn(UpperLetters, c) > 0
  THEN << SubSeq(LowerLetters, IndexIn(UpperLetters, c), IndexIn(UpperLetters, c)) >>
  ELSE IF c = "U+212A" THEN << "k" >>
  ELSE IF c = "U+0130" THEN << "i", "U+0307" >>
  ELSE << c >>

\* str.upper() of one character (used to build the inputs only)
UpperChar(c) ==
  IF IndexIn(LowerLetters, c) > 0
  THEN SubSeq(UpperLetters, IndexIn(LowerLetters, c), IndexIn(LowerLetters, c))
  ELSE c

RECURSIVE lower(_)
lower(s) == IF s = << >> THEN << >> ELSE LowerChar(Head(s)) \o lower(Tail(s))

RECURSIVE lstrip(_)
lstrip(s) == IF s # << >> /\ Head(s) \in Whitespace THEN lstrip(Tail(s)) ELSE s

RECURSIVE rstrip(_)
rstrip(s) ==
  IF s # << >> /\ s[Len(s)] \in Whitespace THEN rstrip(SubSeq(s, 1, Len(s) - 1)) ELSE s

\* a strip that removes one whitespace character at most from each end
strip_single(s) ==
  LET t == IF s # << >> /\ Head(s) \in Whitespace THEN Tail(s) ELSE s
  IN  IF t # << >> /\ t[Len(t)] \in Whitespace THEN SubSeq(t, 1, Len(t) - 1) ELSE t

\* str.strip()
strip(s) == rstrip(lstrip(s))

\* a normalize_input that forgets .lower()
normalize_input_no_lower(user_input) ==
  IF user_input = None THEN << >> ELSE strip(user_input)

\* hello.py:16-20, hello_second.py:16-20
normalize_input(user_input) ==
  IF user_input = None THEN << >> ELSE lower(strip(user_input))

---------------------------------------------------------------------------
(* re.match(pattern, string, re.IGNORECASE), for the patterns the scripts  *)
(* use: ^ and $ anchors, literal characters, \-escaped characters, and the *)
(* quantifier ?.                                                           *)

\* the compiled pattern: a tuple of items, an item being an anchor or a
\* literal that may be optional
RECURSIVE re_parse(_, _)
re_parse(p, i) ==
  IF i > Len(p) THEN << >>
  ELSE IF p[i] = "^" THEN << [kind |-> "bol", c |-> "", opt |-> FALSE] >> \o re_parse(p, i + 1)
  ELSE IF p[i] = "$" THEN << [kind |-> "eol", c |-> "", opt |-> FALSE] >> \o re_parse(p, i + 1)
  ELSE LET esc == p[i] = "\\" /\ i < Len(p)
           c   == IF esc THEN p[i + 1] ELSE p[i]
           j   == IF esc THEN i + 2 ELSE i + 1
           opt == j <= Len(p) /\ p[j] = "?"
       IN  << [kind |-> "lit", c |-> c, opt |-> opt] >>
             \o re_parse(p, IF opt THEN j + 1 ELSE j)

re_compile(pattern) == re_parse(Chars(pattern), 1)

\* the case class of a character under re.IGNORECASE on str patterns: the
\* two cases of a letter match each other, and so do i, U+0130 and U+0131,
\* s and U+017F, k and U+212A
CaseClass(c) ==
  IF c \in {"U+0130", "U+0131"} THEN "i"
  ELSE IF c = "U+017F" THEN "s"
  ELSE IF c = "U+212A" THEN "k"
  ELSE LowerChar(c)[1]

EqIgnoreCase(a, b) == CaseClass(a) = CaseClass(b)

\* $ without re.MULTILINE: at the end, or before a newline that ends the string
AtEnd(s, i) == i = Len(s) + 1 \/ (i = Len(s) /\ s[i] = "\n")

RECURSIVE re_match_at(_, _, _, _)
re_match_at(items, k, s, i) ==
  IF k > Len(items) THEN TRUE
  ELSE IF items[k].kind = "bol" THEN i = 1 /\ re_match_at(items, k + 1, s, i)
  ELSE IF items[k].kind = "eol" THEN AtEnd(s, i) /\ re_match_at(items, k + 1, s, i)
  ELSE \/ /\ i <= Len(s)
          /\ EqIgnoreCase(items[k].c, s[i])
          /\ re_match_at(items, k + 1, s, i + 1)
       \/ /\ items[k].opt
          /\ re_match_at(items, k + 1, s, i)

\* re.match(pattern, string, re.IGNORECASE) is not None
re_match(items, s) == re_match_at(items, 1, s, 1)

---------------------------------------------------------------------------
(* The tables of the two scripts *)

(* hello.py:24-39  hello_patterns, as Python sees the raw strings *)
hello_patterns_hello ==
  << "^hello$",
     "^hi$",
     "^hey$",
     "^hello there$",
     "^good morning$",
     "^good afternoon$",
     "^good evening$",
     "^greetings$",
     "^salutations$",
     "^hola$",
     "^bonjour$",
     "^hallo$",
     "^ciao$",
     "^namaste$" >>

(* hello.py:51 *)
exit_commands_hello ==
  << "exit",
     "quit",
     "q",
     "bye",
     "goodbye",
     "stop",
     "end" >>

(* hello.py:57 *)
help_commands_hello ==
  << "help",
     "?",
     "commands",
     "info",
     "usage" >>

(* hello.py:80-95  responses: <<key, response>> in the order of the dict literal *)
responses_hello ==
  << <<"hello", "Hello! Welcome!">>,
     <<"hi", "Hi there! Nice to see you!">>,
     <<"hey", "Hey! How's it going?">>,
     <<"hello there", "Hello there! General Kenobi... {U+1F609}">>,
     <<"good morning", "Good morning! Rise and shine!">>,
     <<"good afternoon", "Good afternoon! Hope you're having a great day!">>,
     <<"good evening", "Good evening! How was your day?">>,
     <<"greetings", "Greetings and salutations!">>,
     <<"salutations", "Salutations! A pleasure to meet you!">>,
     <<"hola", "{U+00A1}Hola! Bienvenido!">>,
     <<"bonjour", "Bonjour! Comment allez-vous?">>,
     <<"hallo", "Hallo! Wie geht's?">>,
     <<"ciao", "Ciao! Piacere di conoscerti!">>,
     <<"namaste", "Namaste! {U+1F64F}">> >>

(* hello.py:61-74  the arguments of show_help's print calls *)
help_text_hello ==
  << "\n==================================================",
     "HELLO RESPONSE SCRIPT - HELP",
     "==================================================",
     "\nThis script responds to various greeting forms.",
     "\nCommands:",
     "  Greetings: hello, hi, hey, hello there, good morning,",
     "            good afternoon, good evening, greetings,",
     "            salutations, hola, bonjour, hallo, ciao, namaste",
     "  Help:      help, ?, commands, info, usage",
     "  Exit:      exit, quit, q, bye, goodbye, stop, end",
     "\nThe script is case-insensitive and handles extra spaces.",
     "==================================================\n" >>

(* hello_second.py:24-91  hello_patterns, as Python sees the raw strings *)
hello_patterns_hello_second ==
  << "^hello$",
     "^hi$",
     "^hey$",
     "^hello there$",
     "^hi there$",
     "^hey there$",
     "^howdy$",
     "^yo$",
     "^sup$",
     "^what\\'?s up$",
     "^whats up$",
     "^wassup$",
     "^good morning$",
     "^good afternoon$",
     "^good evening$",
     "^good day$",
     "^greetings$",
     "^salutations$",
     "^welcome$",
     "^how are you$",
     "^how do you do$",
     "^pleased to meet you$",
     "^nice to meet you$",
     "^hola$",
     "^buenos dias$",
     "^buenas tardes$",
     "^buenas noches$",
     "^bonjour$",
     "^salut$",
     "^bonsoir$",
     "^hallo$",
     "^guten tag$",
     "^guten morgen$",
     "^ciao$",
     "^buongiorno$",
     "^buonasera$",
     "^oi$",
     "^ola$",
     "^bom dia$",
     "^namaste$",
     "^konnichiwa$",
     "^ni hao$",
     "^annyeong$",
     "^sawadee$",
     "^shalom$",
     "^salam$",
     "^jambo$",
     "^aloha$",
     "^ahoy$",
     "^privyet$",
     "^zdravo$" >>

(* hello_second.py:103 *)
exit_commands_hello_second ==
  << "exit",
     "quit",
     "q",
     "bye",
     "goodbye",
     "stop",
     "end" >>

(* hello_second.py:109 *)
help_commands_hello_second ==
  << "help",
     "?",
     "commands",
     "info",
     "usage" >>

(* hello_second.py:148-215  responses: <<key, response>> in the order of the dict literal *)
responses_hello_second ==
  << <<"hello", "Hello! Welcome!">>,
     <<"hi", "Hi there! Nice to see you!">>,
     <<"hey", "Hey! How's it going?">>,
     <<"hello there", "Hello there! General Kenobi... {U+1F609}">>,
     <<"hi there", "Hi there! Wonderful to see you!">>,
     <<"hey there", "Hey there! What's happening?">>,
     <<"howdy", "Howdy, partner! {U+1F920}">>,
     <<"yo", "Yo! What's good?">>,
     <<"sup", "Sup! How's everything?">>,
     <<"what's up", "Not much, you? What's up with you?">>,
     <<"whats up", "Not much, you? What's up with you?">>,
     <<"wassup", "Wassup! Everything cool?">>,
     <<"good morning", "Good morning! Rise and shine!">>,
     <<"good afternoon", "Good afternoon! Hope you're having a great day!">>,
     <<"good evening", "Good evening! How was your day?">>,
     <<"good day", "Good day! Wishing you the best!">>,
     <<"greetings", "Greetings and salutations!">>,
     <<"salutations", "Salutations! A pleasure to meet you!">>,
     <<"welcome", "Welcome! So glad you're here!">>,
     <<"how are you", "I'm doing great, thanks for asking! How are you?">>,
     <<"how do you do", "How do you do? Pleased to make your acquaintance!">>,
     <<"pleased to meet you", "Pleased to meet you too! The pleasure is mine!">>,
     <<"nice to meet you", "Nice to meet you as well! Great to connect!">>,
     <<"hola", "{U+00A1}Hola! {U+00A1}Bienvenido!">>,
     <<"buenos dias", "{U+00A1}Buenos d{U+00ED}as! {U+00A1}Que tengas un excelente d{U+00ED}a!">>,
     <<"buenas tardes", "{U+00A1}Buenas tardes! {U+00BF}C{U+00F3}mo est{U+00E1}s?">>,
     <<"buenas noches", "{U+00A1}Buenas noches! Que descanses bien.">>,
     <<"bonjour", "Bonjour! Comment allez-vous?">>,
     <<"salut", "Salut! {U+00C7}a va?">>,
     <<"bonsoir", "Bonsoir! Bonne soir{U+00E9}e!">>,
     <<"hallo", "Hallo! Wie geht's?">>,
     <<"guten tag", "Guten Tag! Wie geht es Ihnen?">>,
     <<"guten morgen", "Guten Morgen! Sch{U+00F6}nen Tag noch!">>,
     <<"ciao", "Ciao! Piacere di conoscerti!">>,
     <<"buongiorno", "Buongiorno! Come stai?">>,
     <<"buonasera", "Buonasera! Bella serata!">>,
     <<"oi", "Oi! Tudo bem?">>,
     <<"ola", "Ol{U+00E1}! Como vai?">>,
     <<"bom dia", "Bom dia! Tenha um {U+00F3}timo dia!">>,
     <<"namaste", "Namaste! {U+1F64F}">>,
     <<"konnichiwa", "{U+3053}{U+3093}{U+306B}{U+3061}{U+306F} (Konnichiwa)! Welcome!">>,
     <<"ni hao", "{U+4F60}{U+597D} (N{U+01D0} h{U+01CE}o)! Hello!">>,
     <<"annyeong", "{U+C548}{U+B155} (Annyeong)! Hello!">>,
     <<"sawadee", "{U+0E2A}{U+0E27}{U+0E31}{U+0E2A}{U+0E14}{U+0E35} (Sawadee)! Welcome!">>,
     <<"shalom", "Shalom! {U+05E9}{U+05DC}{U+05D5}{U+05DD} Peace be with you!">>,
     <<"salam", "As-salamu alaykum! {U+0627}{U+0644}{U+0633}{U+0644}{U+0627}{U+0645} {U+0639}{U+0644}{U+064A}{U+0643}{U+0645} Peace!">>,
     <<"jambo", "Jambo! Habari gani?">>,
     <<"aloha", "Aloha! {U+1F33A} Welcome to paradise!">>,
     <<"ahoy", "Ahoy there, matey! {U+2693}">>,
     <<"privyet", "{U+041F}{U+0440}{U+0438}{U+0432}{U+0435}{U+0442} (Privyet)! {U+041A}{U+0430}{U+043A} {U+0434}{U+0435}{U+043B}{U+0430}?">>,
     <<"zdravo", "Zdravo! Kako si?">> >>

(* hello_second.py:113-142  the arguments of show_help's print calls *)
help_text_hello_second ==
  << "\n==================================================",
     "HELLO RESPONSE SCRIPT - HELP",
     "==================================================",
     "\nThis script responds to various greeting forms.",
     "\nCommands:",
     "  English:   hello, hi, hey, howdy, yo, sup, what's up,",
     "             good morning/afternoon/evening/day, greetings,",
     "             how are you, nice to meet you, welcome",
     "  Spanish:   hola, buenos dias, buenas tardes, buenas noches",
     "  French:    bonjour, salut, bonsoir",
     "  German:    hallo, guten tag, guten morgen",
     "  Italian:   ciao, buongiorno, buonasera",
     "  Portuguese: oi, ola, bom dia",
     "  Japanese:  konnichiwa",
     "  Chinese:   ni hao",
     "  Korean:    annyeong",
     "  Thai:      sawadee",
     "  Hindi:     namaste",
     "  Hebrew:    shalom",
     "  Arabic:    salam",
     "  Swahili:   jambo",
     "  Hawaiian:  aloha",
     "  Russian:   privyet",
     "  Serbian:   zdravo",
     "\n  Help:      help, ?, commands, info, usage",
     "  Exit:      exit, quit, q, bye, goodbye, stop, end",
     "\nThe script is case-insensitive and handles extra spaces.",
     "==================================================\n" >>

---------------------------------------------------------------------------
(* The functions of a CLI script; script is "hello.py" or "hello_second.py" *)

Scripts == {"hello.py", "hello_second.py"}

hello_patterns(script) ==
  IF script = "hello.py" THEN hello_patterns_hello ELSE hello_patterns_hello_second

exit_commands(script) ==
  IF script = "hello.py" THEN exit_commands_hello ELSE exit_commands_hello_second

help_commands(script) ==
  IF script = "hello.py" THEN help_commands_hello ELSE help_commands_hello_second

responses(script) ==
  IF script = "hello.py" THEN responses_hello ELSE responses_hello_second

help_text(script) ==
  IF script = "hello.py" THEN help_text_hello ELSE help_text_hello_second

\* the patterns compiled once (the re module caches compiled patterns)
compiled_hello == [k \in 1..Len(hello_patterns_hello) |-> re_compile(hello_patterns_hello[k])]

compiled_hello_second ==
  [k \in 1..Len(hello_patterns_hello_second) |-> re_compile(hello_patterns_hello_second[k])]

compiled(script) == IF script = "hello.py" THEN compiled_hello ELSE compiled_hello_second

\* the members of a list of literals, as strings of the model
exit_list_hello == {Chars(exit_commands_hello[k]) : k \in 1..Len(exit_commands_hello)}

exit_list_hello_second ==
  {Chars(exit_commands_hello_second[k]) : k \in 1..Len(exit_commands_hello_second)}

help_list_hello == {Chars(help_commands_hello[k]) : k \in 1..Len(help_commands_hello)}

help_list_hello_second ==
  {Chars(help_commands_hello_second[k]) : k \in 1..Len(help_commands_hello_second)}

\* the dict of show_greeting: key (a string of the model) -> response
dict_hello ==
  [key \in {Chars(responses_hello[k][1]) : k \in 1..Len(responses_hello)} |->
     LET k == CHOOSE k \in 1..Len(responses_hello) : Chars(responses_hello[k][1]) = key
     IN  responses_hello[k][2]]

dict_hello_second ==
  [key \in {Chars(responses_hello_second[k][1]) : k \in 1..Len(responses_hello_second)} |->
     LET k == CHOOSE k \in 1..Len(responses_hello_second) :
                Chars(responses_hello_second[k][1]) = key
     IN  responses_hello_second[k][2]]

responses_dict(script) == IF script = "hello.py" THEN dict_hello ELSE dict_hello_second

\* hello.py:22-47, hello_second.py:22-99
is_hello_command(script, input_text) ==
  LET normalized == normalize_input(input_text)
  IN  \E k \in 1..Len(compiled(script)) : re_match(compiled(script)[k], normalized)

\* hello.py:49-53, hello_second.py:101-105
is_exit_command(script, input_text) ==
  LET normalized == normalize_input(input_text)
  IN  normalized \in (IF script = "hello.py" THEN exit_list_hello ELSE exit_list_hello_second)

\* an is_help_command that compares the text as typed
is_help_command_raw(script, input_text) ==
  input_text \in (IF script = "hello.py" THEN help_list_hello ELSE help_list_hello_second)

\* hello.py:55-59, hello_second.py:107-111
is_help_command(script, input_text) ==
  LET normalized == normalize_input(input_text)
  IN  normalized \in (IF script = "hello.py" THEN help_list_hello ELSE help_list_hello_second)

\* hello.py:61-74, hello_second.py:113-142: the lines show_help prints
show_help(script) == help_text(script)

DefaultResponse == "Hello! Great to see you!"

\* hello.py:76-99, hello_second.py:144-219: the line show_greeting prints
show_greeting(script, input_text) ==
  LET normalized == normalize_input(input_text)
      response   == IF normalized \in DOMAIN responses_dict(script)
                    THEN responses_dict(script)[normalized]
                    ELSE DefaultResponse
  IN  << "\n{U+1F31F} " \o response \o " {U+1F31F}\n" >>

---------------------------------------------------------------------------
(* The inputs *)

\* a str of the model as one TLA+ string (for the f-strings that echo it)
RECURSIVE Join(_)
Join(s) == IF s = << >> THEN "" ELSE Head(s) \o Join(Tail(s))

RECURSIVE Repeat(_, _)
Repeat(c, n) == IF n = 0 THEN << >> ELSE << c >> \o Repeat(c, n - 1)

RECURSIVE upper(_)
upper(s) == IF s = << >> THEN << >> ELSE << UpperChar(Head(s)) >> \o upper(Tail(s))

capitalize(s) == IF s = << >> THEN << >> ELSE << UpperChar(Head(s)) >> \o Tail(s)

\* every greeting key, exit keyword and help keyword of either script
Phrases ==
  DOMAIN dict_hello \cup DOMAIN dict_hello_second
    \cup exit_list_hello \cup exit_list_hello_second
    \cup help_list_hello \cup help_list_hello_second

\* a phrase in three letter cases
CaseForms(p) == {p, upper(p), capitalize(p)}

\* a phrase in some letter case between n blanks and n tabs, n <= MaxPad
PaddedPhrases ==
  {Repeat(" ", n) \o f \o Repeat("\t", n) :
     n \in 0..MaxPad, f \in UNION {CaseForms(p) : p \in Phrases}}

\* lines of whitespace only, the empty line among them
BlankLines ==
  {Repeat(" ", n) \o Repeat("\t", m) : n \in 0..(MaxPad + 1), m \in 0..(MaxPad + 1)}

\* lines that are near a phrase, or have a letter outside ASCII in a phrase
OtherLines ==
  { Chars("hello!"), Chars("xhello"), Chars("hel lo"), Chars("hello  there"),
    Chars("h"), Chars("what''s up"), Chars("whatsup"), Chars("exit now"),
    Chars("help me"), Chars("??"), Chars("good"),
    << "h", "U+0131" >>, << "H", "U+0130" >>, << "U+017F", "u", "p" >>,
    << "U+212A", "o", "n", "n", "i", "c", "h", "i", "w", "a" >>,
    << "c", "U+0131", "a", "o" >>, << "U+00A0", "h", "i", "U+00A0" >>,
    << "b", "y", "e", "U+00A0" >>, << "q", "u", "U+0131", "t" >>,
    << "U+017F", "t", "o", "p" >>, << "U+0131", "n", "f", "o" >> }

\* the lines input() can return
Lines == PaddedPhrases \cup BlankLines \cup OtherLines

\* the characters of the short strings
ShortAlphabet == << "h", "i", "I", "U+0131", " ", "\n", "q", "?" >>

RECURSIVE StringsOfLen(_)
StringsOfLen(n) ==
  IF n = 0 THEN {<< >>}
  ELSE {s \o << ShortAlphabet[k] >> : s \in StringsOfLen(n - 1), k \in 1..Len(ShortAlphabet)}

ShortStrings == UNION {StringsOfLen(n) : n \in 0..MaxLen}

\* a phrase in some letter case between any two runs of whitespace
WhitespaceRuns == {Repeat(c, n) : c \in {" ", "\n"}, n \in 0..MaxPad}

FreelyPaddedPhrases ==
  {l \o f \o r : l \in WhitespaceRuns, r \in WhitespaceRuns,
                 f \in UNION {CaseForms(p) : p \in Phrases}}

\* the arguments the functions are called on
Inputs == {None} \cup Lines \cup ShortStrings \cup FreelyPaddedPhrases

---------------------------------------------------------------------------
(* State *)

VARIABLES
  script,      \* the CLI script that runs
  pc,          \* main: "input" at get_user_input(), "dispatch" after it, "done"
  user_input,  \* main's user_input; None before the first call and when
               \* get_user_input returned None
  raised,      \* what input() raised in the last get_user_input: "" for nothing
  printed,     \* what the current pass of the loop has printed so far
  exit_via,    \* "running", or how main ended: "return"
  nread,       \* calls of get_user_input so far, saturating at MaxLines
  arg,         \* SpecFn: the argument
  fpc,         \* SpecFn: "start", or the function applied last
  ret,         \* SpecFn: what the functions applied so far returned or printed
  reqs,        \* SpecJob: the requests being served
  served       \* SpecJob: requests answered so far, saturating at MaxServed

loopVars == << pc, user_input, raised, printed, exit_via, nread >>
fnVars == << arg, fpc, ret >>
jobVars == << reqs, served >>
vars == << script, pc, user_input, raised, printed, exit_via, nread,
           arg, fpc, ret, reqs, served >>

CliIdle ==
  /\ pc = "off" /\ user_input = None /\ raised = "" /\ printed = << >>
  /\ exit_via = "off" /\ nread = 0

FnIdle == arg = None /\ fpc = "off" /\ ret = << >>

JobIdle == reqs = << >> /\ served = 0

---------------------------------------------------------------------------
(* Spec: main and get_user_input of a CLI script.                          *)
(*                                                                         *)
(* input() is where the script waits, and where end of input and Ctrl-C    *)
(* reach it.  A signal delivered between two calls of input(), and a print *)
(* that fails, are not part of the model, so main's own except clauses     *)
(* (sys.exit(0), sys.exit(1)) are never entered: nothing else in the body  *)
(* of the loop raises on a str.                                            *)

Prompt == "Enter something (or 'help' for commands): "

Banner ==
  << "\n==================================================",
     "{U+1F680} HELLO RESPONSE SCRIPT - ENHANCED VERSION {U+1F680}",
     "==================================================",
     "\nType 'hello' (or variations) to get a response!",
     "Type 'help' for available commands or 'exit' to quit.\n" >>

RetryMessage == << "Please enter something. Type 'help' for commands.\n" >>

Farewell ==
  << "\nThank you for using the Hello Response Script! {U+1F44B}", "Goodbye!\n" >>

Unrecognized(line) ==
  << "\nYou entered: '" \o Join(line) \o "'",
     "Try typing 'hello' or similar greetings! Type 'help' for more options.\n" >>

InputGoodbye == << "\n\nGoodbye!" >>

InputError == << "\nError reading input: " >>

Interrupted == << "\n\nProgram interrupted. Goodbye! {U+1F44B}" >>

UnexpectedError == << "\nAn unexpected error occurred: " >>

Bump(n) == IF n < MaxLines THEN n + 1 ELSE n

\* main up to the loop: the banner is printed
Init ==
  /\ script \in Scripts
  /\ pc = "input"
  /\ user_input = None
  /\ raised = ""
  /\ printed = Banner
  /\ exit_via = "running"
  /\ nread = 0
  /\ FnIdle /\ JobIdle

\* get_user_input: input() returns a line
GetUserInput(line) ==
  /\ pc = "input"
  /\ user_input' = line
  /\ raised' = ""
  /\ printed' = << Prompt >>
  /\ pc' = "dispatch"
  /\ nread' = Bump(nread)
  /\ UNCHANGED << fnVars, jobVars, script, exit_via >>

\* a get_user_input that catches nothing: the exception reaches main's except
\* clauses, KeyboardInterrupt ends in sys.exit(0), any other in sys.exit(1)
GetUserInputRaises_uncaught(exc) ==
  /\ pc = "input"
  /\ user_input' = user_input
  /\ raised' = exc
  /\ printed' = << Prompt >> \o
                  (IF exc = "KeyboardInterrupt" THEN Interrupted ELSE UnexpectedError)
  /\ pc' = "done"
  /\ exit_via' = IF exc = "KeyboardInterrupt" THEN "sys.exit(0)" ELSE "sys.exit(1)"
  /\ nread' = Bump(nread)
  /\ UNCHANGED << fnVars, jobVars, script >>

\* get_user_input: input() raises exc; every exception is caught, a message
\* is printed and None returned
GetUserInputRaises(exc) ==
  /\ pc = "input"
  /\ user_input' = None
  /\ raised' = exc
  /\ printed' = << Prompt >> \o
                  (IF exc \in {"EOFError", "KeyboardInterrupt"} THEN InputGoodbye
                   ELSE InputError)
  /\ pc' = "dispatch"
  /\ nread' = Bump(nread)
  /\ UNCHANGED << fnVars, jobVars, script, exit_via >>

\* main: if user_input is None: break
BreakOnNone ==
  /\ pc = "dispatch"
  /\ user_input = None
  /\ pc' = "done"
  /\ exit_via' = "return"
  /\ UNCHANGED << fnVars, jobVars, script, user_input, raised, printed, nread >>

\* an empty-line branch that leaves the loop
EmptyLine_breaks ==
  /\ pc = "dispatch"
  /\ user_input # None
  /\ strip(user_input) = << >>
  /\ printed' = printed \o RetryMessage
  /\ pc' = "done"
  /\ exit_via' = "return"
  /\ UNCHANGED << fnVars, jobVars, script, user_input, raised, nread >>

\* main: if not user_input.strip(): print(...); continue
EmptyLine ==
  /\ pc = "dispatch"
  /\ user_input # None
  /\ strip(user_input) = << >>
  /\ printed' = printed \o RetryMessage
  /\ pc' = "input"
  /\ UNCHANGED << fnVars, jobVars, script, user_input, raised, exit_via, nread >>

\* an exit branch that goes on with the loop
ExitLine_continues ==
  /\ pc = "dispatch"
  /\ user_input # None
  /\ strip(user_input) # << >>
  /\ is_exit_command(script, user_input)
  /\ printed' = printed \o Farewell
  /\ pc' = "input"
  /\ UNCHANGED << fnVars, jobVars, script, user_input, raised, exit_via, nread >>

\* main: if is_exit_command(user_input): print the farewell; break
ExitLine ==
  /\ pc = "dispatch"
  /\ user_input # None
  /\ strip(user_input) # << >>
  /\ is_exit_command(script, user_input)
  /\ printed' = printed \o Farewell
  /\ pc' = "done"
  /\ exit_via' = "return"
  /\ UNCHANGED << fnVars, jobVars, script, user_input, raised, nread >>

\* a help branch without its continue: the line goes on to the greeting test
HelpLine_falls_through ==
  /\ pc = "dispatch"
  /\ user_input # None
  /\ strip(user_input) # << >>
  /\ ~is_exit_command(script, user_input)
  /\ is_help_command(script, user_input)
  /\ printed' = printed \o show_help(script) \o
                  (IF is_hello_command(script, user_input)
                   THEN show_greeting(script, user_input)
                   ELSE Unrecognized(user_input))
  /\ pc' = "input"
  /\ UNCHANGED << fnVars, jobVars, script, user_input, raised, exit_via, nread >>

\* main: if is_help_command(user_input): show_help(); continue
HelpLine ==
  /\ pc = "dispatch"
  /\ user_input # None
  /\ strip(user_input) # << >>
  /\ ~is_exit_command(script, user_input)
  /\ is_help_command(script, user_input)
  /\ printed' = printed \o show_help(script)
  /\ pc' = "input"
  /\ UNCHANGED << fnVars, jobVars, script, user_input, raised, exit_via, nread >>

\* main: if is_hello_command(user_input): show_greeting(user_input)
GreetingLine ==
  /\ pc = "dispatch"
  /\ user_input # None
  /\ strip(user_input) # << >>
  /\ ~is_exit_command(script, user_input)
  /\ ~is_help_command(script, user_input)
  /\ is_hello_command(script, user_input)
  /\ printed' = printed \o show_greeting(script, user_input)
  /\ pc' = "input"
  /\ UNCHANGED << fnVars, jobVars, script, user_input, raised, exit_via, nread >>

\* main: else: print what was entered and a hint
UnknownLine ==
  /\ pc = "dispatch"
  /\ user_input # None
  /\ strip(user_input) # << >>
  /\ ~is_exit_command(script, user_input)
  /\ ~is_help_command(script, user_input)
  /\ ~is_hello_command(script, user_input)
  /\ printed' = printed \o Unrecognized(user_input)
  /\ pc' = "input"
  /\ UNCHANGED << fnVars, jobVars, script, user_input, raised, exit_via, nread >>

Next ==
  \/ \E line \in Lines : GetUserInput(line)
  \/ \E exc \in {"EOFError", "KeyboardInterrupt", "Exception"} : GetUserInputRaises(exc)
  \/ BreakOnNone
  \/ EmptyLine
  \/ ExitLine
  \/ HelpLine
  \/ GreetingLine
  \/ UnknownLine

Spec == Init /\ [][Next]_vars

---------------------------------------------------------------------------
(* SpecFn: the functions of a CLI script, each called on one argument *)

InitFn ==
  /\ script \in Scripts
  /\ arg \in Inputs
  /\ fpc = "start"
  /\ ret = << >>
  /\ CliIdle /\ JobIdle

CallNormalizeInput ==
  /\ fpc = "start"
  /\ ret' = << normalize_input(arg) >>
  /\ fpc' = "normalize_input"
  /\ UNCHANGED << arg, script, loopVars, jobVars >>

\* normalize_input called on what normalize_input returned
CallNormalizeInputAgain ==
  /\ fpc = "normalize_input"
  /\ ret' = Append(ret, normalize_input(ret[1]))
  /\ fpc' = "normalize_input twice"
  /\ UNCHANGED << arg, script, loopVars, jobVars >>

CallIsHelloCommand ==
  /\ fpc = "start"
  /\ ret' = << is_hello_command(script, arg) >>
  /\ fpc' = "is_hello_command"
  /\ UNCHANGED << arg, script, loopVars, jobVars >>

CallIsExitCommand ==
  /\ fpc = "start"
  /\ ret' = << is_exit_command(script, arg) >>
  /\ fpc' = "is_exit_command"
  /\ UNCHANGED << arg, script, loopVars, jobVars >>

CallIsHelpCommand ==
  /\ fpc = "start"
  /\ ret' = << is_help_command(script, arg) >>
  /\ fpc' = "is_help_command"
  /\ UNCHANGED << arg, script, loopVars, jobVars >>

CallShowGreeting ==
  /\ fpc = "start"
  /\ ret' = show_greeting(script, arg)
  /\ fpc' = "show_greeting"
  /\ UNCHANGED << arg, script, loopVars, jobVars >>

CallShowHelp ==
  /\ fpc = "start"
  /\ ret' = show_help(script)
  /\ fpc' = "show_help"
  /\ UNCHANGED << arg, script, loopVars, jobVars >>

NextFn ==
  \/ CallNormalizeInput
  \/ CallNormalizeInputAgain
  \/ CallIsHelloCommand
  \/ CallIsExitCommand
  \/ CallIsHelpCommand
  \/ CallShowGreeting
  \/ CallShowHelp

SpecFn == InitFn /\ [][NextFn]_vars

---------------------------------------------------------------------------
(* SpecJob: app.py.  Each request is served by its own call of the view    *)
(* function; up to MaxReqs are in progress at a time.                      *)

SLEEP_SECONDS == 3600

\* request.args.get('jobname'): None when the parameter is absent
JobNames ==
  {None} \cup {Chars(n) : n \in {"normal", "error", "timeout", "bogus", "", "NORMAL",
                                 "normal ", "0", "1"}}

Routes == {"/", "/job"}

NoRequest ==
  [st |-> "idle", route |-> "", jobname |-> None, body |-> "", status |-> 0, slept |-> 0]

\* app.py:6-8: the body and status of GET /
index == << "Welcome. Use /job?jobname=xxx", 200 >>

\* a job_handler that reads the parameter with a default:
\* request.args.get('jobname', 'normal')
job_handler_default(jobname) ==
  IF jobname = Chars("normal") \/ jobname = None THEN << "0", 200, 0 >>
  ELSE IF jobname = Chars("error") THEN << "1", 200, 0 >>
  ELSE IF jobname = Chars("timeout") THEN << "0", 200, SLEEP_SECONDS >>
  ELSE << "Invalid jobname", 400, 0 >>

\* app.py:9-21: << body, status, seconds slept before returning >>; a view
\* that returns a str alone is answered with status 200
job_handler(jobname) ==
  IF jobname = Chars("normal") THEN << "0", 200, 0 >>
  ELSE IF jobname = Chars("error") THEN << "1", 200, 0 >>
  ELSE IF jobname = Chars("timeout") THEN << "0", 200, SLEEP_SECONDS >>
  ELSE << "Invalid jobname", 400, 0 >>

InitJob ==
  /\ reqs = [r \in 1..MaxReqs |-> NoRequest]
  /\ served = 0
  /\ script = "app.py"
  /\ CliIdle /\ FnIdle

\* a request arrives and is routed
Receive(r, route, jobname) ==
  /\ reqs[r].st = "idle"
  /\ route = "/" => jobname = None
  /\ reqs' = [reqs EXCEPT ![r] = [NoRequest EXCEPT !.st = "routed", !.route = route,
                                                   !.jobname = jobname]]
  /\ UNCHANGED << served, script, loopVars, fnVars >>

\* index() returns
Index(r) ==
  /\ reqs[r].st = "routed"
  /\ reqs[r].route = "/"
  /\ reqs' = [reqs EXCEPT ![r].st = "responded", ![r].body = index[1],
                          ![r].status = index[2]]
  /\ UNCHANGED << served, script, loopVars, fnVars >>

\* job_handler() returns without sleeping
JobHandler(r) ==
  /\ reqs[r].st = "routed"
  /\ reqs[r].route = "/job"
  /\ job_handler(reqs[r].jobname)[3] = 0
  /\ reqs' = [reqs EXCEPT ![r].st = "responded",
                          ![r].body = job_handler(reqs[r].jobname)[1],
                          ![r].status = job_handler(reqs[r].jobname)[2]]
  /\ UNCHANGED << served, script, loopVars, fnVars >>

\* job_handler() enters time.sleep
JobHandlerSleeps(r) ==
  /\ reqs[r].st = "routed"
  /\ reqs[r].route = "/job"
  /\ job_handler(reqs[r].jobname)[3] > 0
  /\ reqs' = [reqs EXCEPT ![r].st = "sleeping"]
  /\ UNCHANGED << served, script, loopVars, fnVars >>

\* time.sleep returns after the delay, and job_handler() returns
JobHandlerWakes(r) ==
  /\ reqs[r].st = "sleeping"
  /\ reqs' = [reqs EXCEPT ![r].st = "responded",
                          ![r].slept = job_handler(reqs[r].jobname)[3],
                          ![r].body = job_handler(reqs[r].jobname)[1],
                          ![r].status = job_handler(reqs[r].jobname)[2]]
  /\ UNCHANGED << served, script, loopVars, fnVars >>

\* the response is sent; the slot serves the next request
Respond(r) ==
  /\ reqs[r].st = "responded"
  /\ reqs' = [reqs EXCEPT ![r] = NoRequest]
  /\ served' = IF served < MaxServed THEN served + 1 ELSE served
  /\ UNCHANGED << script, loopVars, fnVars >>

NextJob ==
  \E r \in 1..MaxReqs :
    \/ \E route \in Routes, jobname \in JobNames : Receive(r, route, jobname)
    \/ Index(r)
    \/ JobHandler(r)
    \/ JobHandlerSleeps(r)
    \/ JobHandlerWakes(r)
    \/ Respond(r)

SpecJob == InitJob /\ [][NextJob]_vars

---------------------------------------------------------------------------
(* What the claims speak of *)

\* the line in user_input has been through the body of the loop
Answered == pc # "dispatch" /\ user_input # None

\* f is key with the case of some letters changed
IsCaseVariant(f, key) ==
  /\ Len(f) = Len(key)
  /\ \A i \in 1..Len(key) : f[i] \in {key[i], UpperChar(key[i])}

\* line is key with the case of some letters changed and whitespace put
\* before and after it
IsVariantOf(line, key) ==
  \E a \in 0..(Len(line) - Len(key)) :
    /\ \A i \in 1..a : line[i] \in Whitespace
    /\ \A i \in (a + Len(key) + 1)..Len(line) : line[i] \in Whitespace
    /\ IsCaseVariant(SubSeq(line, a + 1, a + Len(key)), key)

IsBlank(line) == \A i \in 1..Len(line) : line[i] \in Whitespace

\* the response written beside key in the dict literal of show_greeting
ResponseOf(scr, key) ==
  LET t == responses(scr)
      k == CHOOSE k \in 1..Len(t) : Chars(t[k][1]) = key
  IN  t[k][2]

\* the line show_greeting prints for a response
GreetingText(response) == "\n{U+1F31F} " \o response \o " {U+1F31F}\n"

AllResponses(scr) ==
  {responses(scr)[k][2] : k \in 1..Len(responses(scr))} \cup {DefaultResponse}

ExitKeywords == {Chars(w) : w \in {"exit", "quit", "q", "bye", "goodbye", "stop", "end"}}

HelpKeywords == {Chars(w) : w \in {"help", "?", "commands", "info", "usage"}}

\* text has part as a substring (both TLA+ strings)
Contains(text, part) ==
  \E i \in 1..(Len(text) - Len(part) + 1) : SubSeq(text, i, i + Len(part) - 1) = part

---------------------------------------------------------------------------
(* The claims *)

\* C1: a line that is a key of the response catalog of the running script,
\* in any letter case and between any whitespace, is classified as a greeting
\* (is_hello_command true, is_exit_command and is_help_command false) and is
\* answered with exactly the response stored under that key, which is not
\* the generic fallback.
C1_CatalogPhraseGetsItsResponse ==
  \A key \in DOMAIN responses_dict(script) :
    (script \in Scripts /\ Answered /\ IsVariantOf(user_input, key)) =>
      /\ is_hello_command(script, user_input)
      /\ ~is_exit_command(script, user_input)
      /\ ~is_help_command(script, user_input)
      /\ printed = << Prompt, GreetingText(ResponseOf(script, key)) >>
      /\ ResponseOf(script, key) # DefaultResponse
      /\ pc = "input"

C1_Witness ==
  /\ script = "hello_second.py"
  /\ pc = "input"
  /\ nread = MaxLines
  /\ user_input = << " " >> \o Chars("WHAT'S UP") \o << "\t" >>
  /\ printed = << Prompt, GreetingText("Not much, you? What's up with you?") >>

\* C2: a line that normalizes to an exit keyword, after any number of earlier
\* lines, ends the loop: the farewell is printed, main returns, and no step
\* of the script is possible any more (no line is read or answered).
C2_ExitKeywordTerminates ==
  ( /\ script \in Scripts
    /\ Answered
    /\ \/ normalize_input(user_input) \in ExitKeywords
       \/ \E key \in ExitKeywords : IsVariantOf(user_input, key) ) =>
      /\ pc = "done"
      /\ exit_via = "return"
      /\ printed = << Prompt >> \o Farewell
      /\ ~ENABLED Next

C2_Witness ==
  /\ script = "hello.py"
  /\ pc = "done"
  /\ nread = MaxLines
  /\ user_input = << " " >> \o Chars("BYE") \o << "\t" >>
  /\ printed = << Prompt >> \o Farewell

\* C3: a line that normalizes to a help keyword is answered with the help
\* text and nothing else, and the loop goes on: the next step is a read.
C3_HelpKeywordShowsHelp ==
  ( /\ script \in Scripts
    /\ Answered
    /\ \/ normalize_input(user_input) \in HelpKeywords
       \/ \E key \in HelpKeywords : IsVariantOf(user_input, key) ) =>
      /\ printed = << Prompt >> \o help_text(script)
      /\ pc = "input"
      /\ exit_via = "running"
      /\ ENABLED GetUserInput(<< >>)

C3_Witness ==
  /\ script = "hello_second.py"
  /\ pc = "input"
  /\ nread = MaxLines
  /\ user_input = << " ", "?", "\t" >>
  /\ printed = << Prompt >> \o help_text_hello_second

\* C4: an empty or whitespace-only line is none of exit, help and greeting;
\* it is answered with the retry prompt alone, and the loop goes on to read
\* the next line.
C4_BlankLineIsRetried ==
  (script \in Scripts /\ Answered /\ IsBlank(user_input)) =>
    /\ ~is_exit_command(script, user_input)
    /\ ~is_help_command(script, user_input)
    /\ ~is_hello_command(script, user_input)
    /\ printed = << Prompt >> \o RetryMessage
    /\ pc = "input"
    /\ exit_via = "running"
    /\ ENABLED GetUserInput(<< >>)

C4_Witness ==
  /\ script = "hello.py"
  /\ pc = "input"
  /\ nread = MaxLines
  /\ user_input = << " ", "\t" >>
  /\ printed = << Prompt >> \o RetryMessage

\* C5: what GET /job answers depends on jobname alone, whatever was served
\* before and whatever is served beside it: normal -> "0"/200, error ->
\* "1"/200, timeout -> "0"/200 after the full sleep and nothing before it,
\* anything else and an absent parameter -> "Invalid jobname"/400.
C5_JobResponseIsFunctionOfJobname ==
  \A r \in DOMAIN reqs :
    LET q == reqs[r] IN
      /\ (q.st = "responded" /\ q.route = "/job") =>
           IF q.jobname = Chars("normal")
             THEN q.body = "0" /\ q.status = 200 /\ q.slept = 0
           ELSE IF q.jobname = Chars("error")
             THEN q.body = "1" /\ q.status = 200 /\ q.slept = 0
           ELSE IF q.jobname = Chars("timeout")
             THEN q.body = "0" /\ q.status = 200 /\ q.slept = 3600
           ELSE q.body = "Invalid jobname" /\ q.status = 400 /\ q.slept = 0
      /\ (q.st = "sleeping") => q.jobname = Chars("timeout")
      /\ (q.st \in {"routed", "sleeping"}) => q.body = "" /\ q.status = 0 /\ q.slept = 0

C5_Witness ==
  /\ served = MaxServed
  /\ reqs[1].st = "responded" /\ reqs[1].jobname = Chars("timeout")
  /\ reqs[1].body = "0" /\ reqs[1].slept = 3600
  /\ reqs[2].st = "responded" /\ reqs[2].route = "/job" /\ reqs[2].jobname = None
  /\ reqs[2].status = 400

\* C6: normalize_input applied to its own result returns that result, for
\* every argument; for None it returns the empty string.
C6_NormalizeIdempotent ==
  /\ fpc = "normalize_input twice" => ret[2] = ret[1]
  /\ (fpc \in {"normalize_input", "normalize_input twice"} /\ arg = None) => ret[1] = << >>

C6_Witness ==
  /\ fpc = "normalize_input twice"
  /\ arg = << "\n" >> \o Chars("Hello there") \o << " " >>
  /\ ret = << Chars("hello there"), Chars("hello there") >>

\* C7, as claimed: every phrase is_hello_command accepts, every help keyword
\* and every exit keyword of a script is in the text show_help prints.
C7_HelpListsEveryPhrase ==
  ( /\ fpc = "show_help"
    /\ arg \in Phrases
    /\ \/ is_hello_command(script, arg)
       \/ is_exit_command(script, arg)
       \/ is_help_command(script, arg) ) =>
      \E k \in 1..Len(ret) : Contains(ret[k], Join(arg))

\* C8, as claimed: is_hello_command is true exactly when the normalized line
\* is a key of the response catalog, so that a greeting printed by the main
\* loop is never the generic fallback.
C8_MatchIsKeyEquality ==
  (script \in Scripts /\ Answered) =>
    /\ is_hello_command(script, user_input)
         <=> normalize_input(user_input) \in DOMAIN responses_dict(script)
    /\ printed # << Prompt, GreetingText(DefaultResponse) >>

\* C9: when input() raises EOFError or KeyboardInterrupt, after any number of
\* lines, get_user_input prints its goodbye and returns None; main then can
\* only break: no branch that classifies is possible, no read is possible,
\* and main ends by returning, not by sys.exit.
C9_InputClosedEndsLoop ==
  (raised \in {"EOFError", "KeyboardInterrupt"}) =>
    /\ user_input = None
    /\ printed = << Prompt >> \o InputGoodbye
    /\ pc \in {"dispatch", "done"}
    /\ pc = "dispatch" =>
         /\ ENABLED BreakOnNone
         /\ ~ENABLED (EmptyLine \/ ExitLine \/ HelpLine \/ GreetingLine \/ UnknownLine)
         /\ ~ENABLED (\E line \in Lines : GetUserInput(line))
         /\ exit_via = "running"
    /\ pc = "done" => exit_via = "return" /\ ~ENABLED Next

C9_Witness ==
  /\ pc = "done"
  /\ raised = "EOFError"
  /\ nread = MaxLines
  /\ exit_via = "return"
  /\ printed = << Prompt >> \o InputGoodbye

\* C10: an answered non-empty line has exactly one outcome: at most one of
\* is_exit_command, is_help_command, is_hello_command holds of it (so the
\* order of the tests does not matter), what was printed is the output of
\* that one outcome, and the loop has ended exactly when the outcome is
\* terminate.  The exit keywords, the help keywords and the greeting keys of
\* the script are pairwise disjoint.
C10_ExactlyOneOutcome ==
  (script \in Scripts /\ Answered /\ user_input # << >>) =>
    LET e   == is_exit_command(script, user_input)
        h   == is_help_command(script, user_input)
        g   == is_hello_command(script, user_input)
        out == Tail(printed)
        exits == {Chars(exit_commands(script)[k]) : k \in 1..Len(exit_commands(script))}
        helps == {Chars(help_commands(script)[k]) : k \in 1..Len(help_commands(script))}
        keys  == {Chars(responses(script)[k][1]) : k \in 1..Len(responses(script))}
    IN  /\ ~(e /\ h) /\ ~(e /\ g) /\ ~(h /\ g)
        /\ exits \cap helps = {} /\ exits \cap keys = {} /\ helps \cap keys = {}
        /\ Head(printed) = Prompt
        /\ e <=> out = Farewell
        /\ h <=> out = help_text(script)
        /\ g <=> \E resp \in AllResponses(script) : out = << GreetingText(resp) >>
        /\ ~(e \/ h \/ g) <=> out \in {Unrecognized(user_input), RetryMessage}
        /\ e <=> pc = "done"

C10_Witness ==
  /\ script = "hello_second.py"
  /\ pc = "input"
  /\ nread = MaxLines
  /\ user_input = Chars("exit now")
  /\ printed = << Prompt >> \o Unrecognized(Chars("exit now"))

=============================================================================
